---- MODULE Spec2Model ----
(***************************************************************************)
(* Model of paradox/interfaces/gsm_interface.py (class GSMInterface): the  *)
(* GSM channel of the alarm bridge.  The worker thread (run), the enqueue  *)
(* entry points (event, notify, change), the modem connection (connected,  *)
(* write), the SMS command processor (handle_message, send_command,        *)
(* normalize_payload) and stop().                                          *)
(*                                                                         *)
(* Text is modelled as a sequence of atoms.  An atom is a separator (a     *)
(* space, a tab, a line end, a double quote) or a chunk of other           *)
(* characters; split, strip and lower are computed over the atoms.         *)
(***************************************************************************)
EXTENDS Integers, Sequences, FiniteSets, TLC

\* ------------------------------------------------------------------ bounds
\* Longest inbound SMS body, in space-separated tokens.
MaxTokens == 4
\* Most work items waiting in the queue at once.
MaxQueue == 2
\* Most work items waiting at once where the transport is unreliable.
MaxBacklog == 1

\* ------------------------------------------------------------- text atoms
SP == " "
TAB == "<TAB>"
CRLF == "<CRLF>"
QUOTE == "<QUOTE>"
SUB == "<SUB>"
\* Characters str.strip() removes.
Whitespace == {SP, TAB, CRLF}

\* Python's None, and the truth value of a returned object.
None == "None"
Truthy(v) == v \notin {None, "False"}

\* str.lower() on one atom.
LowerAtom(a) ==
  CASE a = "ZONE" -> "zone"
    [] a = "Zone" -> "zone"
    [] a = "PARTITION" -> "partition"
    [] a = "Output" -> "output"
    [] a = "ON" -> "on"
    [] a = "On" -> "on"
    [] a = "Enable" -> "enable"
    [] a = "TRUE" -> "true"
    [] a = "Off" -> "off"
    [] a = "Bypass" -> "bypass"
    [] a = "ARM" -> "arm"
    [] a = "Disarm" -> "disarm"
    [] a = "BOGUS" -> "bogus"
    [] a = "False" -> "false"
    [] a = "DISABLE" -> "disable"
    [] a = "Pulse" -> "pulse"
    [] a = "Arm_Stay" -> "arm_stay"
    [] a = "ARM_SLEEP" -> "arm_sleep"
    [] a = "Clear_Bypass" -> "clear_bypass"
    [] OTHER -> a

\* str.lower()
Lower(s) == [i \in 1..Len(s) |-> LowerAtom(s[i])]

\* str.strip(): drops the leading and the trailing whitespace.
RECURSIVE LStrip(_)
LStrip(s) ==
  IF s # <<>> /\ Head(s) \in Whitespace THEN LStrip(Tail(s)) ELSE s

RECURSIVE RStrip(_)
RStrip(s) ==
  IF s # <<>> /\ s[Len(s)] \in Whitespace
  THEN RStrip(SubSeq(s, 1, Len(s) - 1))
  ELSE s

Strip(s) == RStrip(LStrip(s))

\* str.split(sep): the pieces between the occurrences of sep; always at
\* least one piece, and an empty piece between two adjacent separators.
RECURSIVE SplitFrom(_, _, _, _)
SplitFrom(s, sep, done, cur) ==
  IF s = <<>> THEN Append(done, cur)
  ELSE IF Head(s) = sep THEN SplitFrom(Tail(s), sep, Append(done, cur), <<>>)
  ELSE SplitFrom(Tail(s), sep, done, Append(cur, Head(s)))

Split(s, sep) == SplitFrom(s, sep, <<>>, <<>>)

\* sep.join(parts)
RECURSIVE Join(_, _)
Join(parts, sep) ==
  IF parts = <<>> THEN <<>>
  ELSE IF Len(parts) = 1 THEN parts[1]
  ELSE parts[1] \o <<sep>> \o Join(Tail(parts), sep)

\* ------------------------------------------------------ normalize_payload
OnWords_NoEnable == {"true", "on", "1"}
OnWords == {"true", "on", "1", "enable"}
OffWords == {"false", "off", "0", "disable"}
PassWords ==
  {"pulse", "arm", "disarm", "arm_stay", "arm_sleep", "bypass", "clear_bypass"}

normalize_payload(message) ==
  LET m == Lower(Strip(message)) IN
  IF Len(m) = 1 /\ m[1] \in OnWords THEN "on"
  ELSE IF Len(m) = 1 /\ m[1] \in OffWords THEN "off"
  ELSE IF Len(m) = 1 /\ m[1] \in PassWords THEN m[1]
  ELSE None

\* -------------------------------------------------------- configuration
\* cfg.GSM_CONTACTS: the trusted numbers, in the configured order.
GSM_CONTACTS == <<"+111", "+222">>
Contacts == {GSM_CONTACTS[i] : i \in 1..Len(GSM_CONTACTS)}
\* GSMInterface.name
name == "gsm"
\* logging levels
CRITICAL == 50

\* ----------------------------------------------------------- send_command
ZoneCommands_WithArm == {"bypass", "clear_bypass", "arm"}
ZoneCommands == {"bypass", "clear_bypass"}
PartitionCommands == {"arm", "disarm", "arm_stay", "arm_sleep"}
OutputCommands == {"on", "off", "pulse"}

\* A call of the worker on a collaborator, or of send_sms.
Call(op, to, text, arg) == [op |-> op, to |-> to, text |-> text, arg |-> arg]

\* send_command(message): the value it returns and the Alarm calls it makes.
\* No path of the function returns a value: each `return` is bare and the
\* function ends without one, so the result is always None.
send_command(message, alarmSet) ==
  LET tokens == Split(message, SP) IN
  IF Len(tokens) # 3 THEN [ret |-> None, calls |-> <<>>]
  ELSE IF ~alarmSet THEN [ret |-> None, calls |-> <<>>]
  ELSE
    LET element_type == Lower(tokens[1])
        element == tokens[2]
        command == normalize_payload(tokens[3])
    IN
    IF element_type = <<"zone">> THEN
      IF command \notin ZoneCommands
      THEN [ret |-> None, calls |-> <<>>]
      ELSE [ret |-> None,
            calls |-> <<Call("control_zone", <<"alarm">>, element, command)>>]
    ELSE IF element_type = <<"partition">> THEN
      IF command \notin PartitionCommands
      THEN [ret |-> None, calls |-> <<>>]
      ELSE [ret |-> None,
            calls |->
              <<Call("control_partition", <<"alarm">>, element, command)>>]
    ELSE IF element_type = <<"output">> THEN
      IF command \notin OutputCommands
      THEN [ret |-> None, calls |-> <<>>]
      ELSE [ret |-> None,
            calls |-> <<Call("control_output", <<"alarm">>, element, command)>>]
    ELSE [ret |-> None, calls |-> <<>>]

\* ---------------------------------------------------------------- send_sms
\* send_sms(dst, message): the call, then its three write() calls in order.
send_sms(dst, message) ==
  << Call("send_sms", dst, message, ""),
     Call("write", dst, <<"AT+CMGS=", QUOTE>> \o dst \o <<QUOTE>>, "compose"),
     Call("write", dst, message, "body"),
     Call("write", dst, <<SUB, CRLF>>, "end") >>

\* "{}: {}".format(a, b)
ColonFormat(a, b) == a \o <<":", SP>> \o b

\* ---------------------------------------------------------- handle_message
\* Line 199: `if self.alarm is None`.
AlarmMissing_Ignored(alarmSet) == FALSE
AlarmMissing(alarmSet) == ~alarmSet

\* Line 205: `if source in cfg.GSM_CONTACTS`.
Authorized_Everyone(source) == TRUE
Authorized_Nobody(source) == FALSE
Authorized(source) == Len(source) = 1 /\ source[1] \in Contacts

\* handle_message(timestamp, source, message): the calls it makes, in order.
handle_message(source, message, alarmSet) ==
  IF AlarmMissing(alarmSet) THEN <<>>
  ELSE
    <<Call("notify", <<name>>, ColonFormat(source, message), "INFO")>> \o
    IF Authorized(source)
    THEN
      LET r == send_command(message, alarmSet) IN
      r.calls \o
      IF Truthy(r.ret)
      THEN send_sms(source, ColonFormat(<<"ACCEPTED">>, message)) \o
           <<Call("notify", <<name>>,
                  ColonFormat(<<"ACCEPTED">>, ColonFormat(source, message)),
                  "INFO")>>
      ELSE send_sms(source, ColonFormat(<<"REJECTED">>, message)) \o
           <<Call("notify", <<name>>,
                  ColonFormat(<<"REJECTED">>, ColonFormat(source, message)),
                  "INFO")>>
    ELSE
      <<Call("notify", <<name>>,
             ColonFormat(<<"REJECTED">>, ColonFormat(source, message)),
             "INFO")>>

\* ------------------------------------------- handle_event, send_message
\* The calls of a loop, one sequence of calls per round.
RECURSIVE Flatten(_)
Flatten(rounds) ==
  IF rounds = <<>> THEN <<>> ELSE Head(rounds) \o Flatten(Tail(rounds))

\* handle_event(raw): dials every contact.
handle_event(raw) ==
  Flatten([i \in 1..Len(GSM_CONTACTS) |->
    <<Call("write", <<GSM_CONTACTS[i]>>, <<"ATD", GSM_CONTACTS[i]>>, "dial")>>])

send_message_First(message, p) ==
  IF p = "none" THEN <<>>
  ELSE send_sms(<<GSM_CONTACTS[1]>>, message)

\* send_message(message): an SMS to every contact, unless there is no port.
send_message(message, p) ==
  IF p = "none" THEN <<>>
  ELSE Flatten([i \in 1..Len(GSM_CONTACTS) |->
         send_sms(<<GSM_CONTACTS[i]>>, message)])

\* ------------------------------------------------------------------ state
VARIABLES
  queue,                 \* self.queue, the waiting items in insertion order
  alarm,                 \* self.alarm is set
  notification_handler,  \* self.notification_handler is set
  stop_running,          \* self.stop_running
  port,                  \* self.port: "none", "open" or "closed"
  modem_connected,       \* self.modem_connected
  pc,                    \* the worker's position in run()
  pending,               \* the calls the worker has still to make for the
                         \* message or item it is handling
  stop_pc,               \* the position of the thread calling stop()
  cur,                   \* history: the message or item handled in this
                         \* iteration and the calls made for it so far
  io,                    \* history: the last connected()/write()/read() call
                         \* of this iteration
  dirty,                 \* history: a write() failed and the modem was not
                         \* initialized again since
  last,                  \* history: the last event(), notify() or change()
                         \* call and what it put in the queue
  wire,                  \* history: the commands write() gave to the
                         \* transport in this iteration, in order
  faulted                \* history: the handling of a work item has raised

vars ==
  << queue, alarm, notification_handler, stop_running, port, modem_connected,
     pc, pending, stop_pc, cur, io, dirty, last, wire, faulted >>

NoCur ==
  [kind |-> "none", source |-> <<>>, body |-> <<>>, alarm |-> FALSE,
   handler |-> FALSE, calls |-> <<>>, index |-> 0, raised |-> FALSE]
NoIo ==
  [op |-> "none", pre |-> FALSE, ret |-> FALSE, opened |-> FALSE,
   inits |-> <<>>, cmd |-> <<>>, tried |-> FALSE, sent |-> FALSE,
   failed |-> FALSE, stale |-> FALSE, dirty |-> FALSE]

NoLast ==
  [op |-> "none", major |-> 0, minor |-> 0, source |-> "", level |-> 0,
   kept |-> TRUE, put |-> <<>>]

Init ==
  /\ queue = <<>>
  /\ alarm = FALSE
  /\ notification_handler = FALSE
  /\ stop_running = FALSE
  /\ port = "none"
  /\ modem_connected = FALSE
  /\ pc = "outer"
  /\ pending = <<>>
  /\ stop_pc = "idle"
  /\ cur = NoCur
  /\ io = NoIo
  /\ dirty = FALSE
  /\ last = NoLast
  /\ wire = <<>>
  /\ faulted = FALSE

\* ------------------------------------------------- set_alarm, set_notify
set_alarm ==
  /\ alarm' = TRUE
  /\ UNCHANGED << queue, notification_handler, stop_running, port,
                  modem_connected, pc, pending, stop_pc, cur, io, dirty,
                  last, wire, faulted >>

set_notify ==
  /\ notification_handler' = TRUE
  /\ UNCHANGED << queue, alarm, stop_running, port, modem_connected, pc,
                  pending, stop_pc, cur, io, dirty,
                  last, wire, faulted >>

\* ----------------------------------------------------------------- queue
\* A SortableTuple((priority, kind, payload)).
SortableTuple(priority, kind, payload) ==
  [priority |-> priority, kind |-> kind, payload |-> payload]

\* The order of the kind strings.
KindRank(kind) ==
  CASE kind = "change" -> 0 [] kind = "event" -> 1 [] kind = "notify" -> 2

\* The order of the work items: by priority, then by kind; items equal in
\* both leave the queue in insertion order.
SortableLess(a, b) ==
  \/ a.priority < b.priority
  \/ a.priority = b.priority /\ KindRank(a.kind) < KindRank(b.kind)

\* queue.get(): the position of the item that leaves the queue, the first
\* one that no other item precedes in the order.
GetIndex(q) ==
  CHOOSE i \in 1..Len(q) :
    /\ \A j \in 1..Len(q) : ~SortableLess(q[j], q[i])
    /\ \A j \in 1..(i - 1) : SortableLess(q[i], q[j])

Remove(q, i) == SubSeq(q, 1, i - 1) \o SubSeq(q, i + 1, Len(q))

\* ----------------------------------------------------------------- event
\* The test of event(): fire alarm and strobe, special alarms.
EventAdmitted_Minor6(raw) ==
  \/ raw.major = 37
  \/ raw.major = 2 /\ raw.minor = 6
  \/ raw.major = 40 /\ raw.minor \in {0, 1, 2, 3, 4, 5, 6}

EventAdmitted(raw) ==
  \/ raw.major = 37
  \/ raw.major = 2 /\ raw.minor = 6
  \/ raw.major = 40 /\ raw.minor \in {0, 1, 2, 3, 4, 5}

event(raw, cap) ==
  /\ Len(queue) < cap
  /\ queue' = IF EventAdmitted(raw)
              THEN Append(queue, SortableTuple(2, "event", raw))
              ELSE queue
  /\ UNCHANGED << alarm, notification_handler, stop_running, port,
                  modem_connected, pc, pending, stop_pc, cur, io, dirty,
                  wire, faulted >>

\* ---------------------------------------------------------------- change
\* change(element, label, property, value) returns at once.
change ==
  /\ UNCHANGED << queue, alarm, notification_handler, stop_running, port,
                  modem_connected, pc, pending, stop_pc, cur, io, dirty,
                  wire, faulted >>

\* ---------------------------------------------------------------- notify
NotifyAdmitted_Above(source, level) == source # name /\ level > CRITICAL
NotifyAdmitted(source, level) == source # name /\ ~(level < CRITICAL)

notify(source, message, level, cap) ==
  /\ Len(queue) < cap
  /\ queue' = IF NotifyAdmitted(source, level)
              THEN Append(queue,
                     SortableTuple(2, "notify",
                       [source |-> source, message |-> message,
                        level |-> level]))
              ELSE queue
  /\ UNCHANGED << alarm, notification_handler, stop_running, port,
                  modem_connected, pc, pending, stop_pc, cur, io, dirty,
                  wire, faulted >>

\* ------------------------------------------------------------- connected
\* The commands connected() writes after opening the port.
InitCommands ==
  << <<"AT">>, <<"ATE0">>, <<"AT+CMGF=1">>, <<"AT+CNMI=1,2,0,0,0">>,
     <<"AT+CUSD=1,", QUOTE, "*111#", QUOTE>> >>

\* What the transport does during one connected(): whether serial.Serial()
\* opens the port, and the first of the initialization writes that fails
\* (returns 0 or raises), 0 when none does.
ConnOutcomes ==
  {[open |-> FALSE, bad |-> 0]}
    \cup {[open |-> TRUE, bad |-> b] : b \in 0..Len(InitCommands)}
ConnOk == {[open |-> TRUE, bad |-> 0]}

\* connected(): the value returned, the fields afterwards, whether the port
\* was opened and the initialization commands written to it.
connected_Partial(mc, p, o) ==
  IF mc
  THEN [ret |-> TRUE, modem_connected |-> TRUE, port |-> p,
        opened |-> FALSE, inits |-> <<>>]
  ELSE IF ~o.open
  THEN [ret |-> FALSE, modem_connected |-> FALSE, port |-> p,
        opened |-> FALSE, inits |-> <<>>]
  ELSE IF o.bad # 0
  THEN [ret |-> TRUE, modem_connected |-> TRUE, port |-> "open",
        opened |-> TRUE, inits |-> SubSeq(InitCommands, 1, o.bad - 1)]
  ELSE [ret |-> TRUE, modem_connected |-> TRUE, port |-> "open",
        opened |-> TRUE, inits |-> InitCommands]

connected_Reopen(mc, p, o) ==
  IF ~o.open
  THEN [ret |-> mc, modem_connected |-> mc, port |-> p,
        opened |-> FALSE, inits |-> <<>>]
  ELSE IF o.bad # 0
  THEN [ret |-> FALSE, modem_connected |-> FALSE, port |-> "open",
        opened |-> TRUE, inits |-> SubSeq(InitCommands, 1, o.bad - 1)]
  ELSE [ret |-> TRUE, modem_connected |-> TRUE, port |-> "open",
        opened |-> TRUE, inits |-> InitCommands]

connected_MarkEarly(mc, p, o) ==
  IF mc
  THEN [ret |-> TRUE, modem_connected |-> TRUE, port |-> p,
        opened |-> FALSE, inits |-> <<>>]
  ELSE IF ~o.open
  THEN [ret |-> FALSE, modem_connected |-> FALSE, port |-> p,
        opened |-> FALSE, inits |-> <<>>]
  ELSE IF o.bad # 0
  THEN [ret |-> FALSE, modem_connected |-> TRUE, port |-> "open",
        opened |-> TRUE, inits |-> SubSeq(InitCommands, 1, o.bad - 1)]
  ELSE [ret |-> TRUE, modem_connected |-> TRUE, port |-> "open",
        opened |-> TRUE, inits |-> InitCommands]

connected(mc, p, o) ==
  IF mc
  THEN [ret |-> TRUE, modem_connected |-> TRUE, port |-> p,
        opened |-> FALSE, inits |-> <<>>]
  ELSE IF ~o.open
  THEN [ret |-> FALSE, modem_connected |-> FALSE, port |-> p,
        opened |-> FALSE, inits |-> <<>>]
  ELSE IF o.bad # 0
  THEN [ret |-> FALSE, modem_connected |-> FALSE, port |-> "open",
        opened |-> TRUE, inits |-> SubSeq(InitCommands, 1, o.bad - 1)]
  ELSE [ret |-> TRUE, modem_connected |-> TRUE, port |-> "open",
        opened |-> TRUE, inits |-> InitCommands]

\* ----------------------------------------------------------------- write
\* What the transport does with the command of one write(): "ok"; the
\* port.write raises; the command is written and reading the answer raises;
\* or port.write returns 0, nothing written and nothing raised, which
\* write(), unlike connected(), does not test for.
WriteOutcomes == {"ok", "write_raises", "drain_raises", "zero"}
WriteOk == {"ok"}

\* write(message): connected() first; when it returns false nothing is
\* written.  A closed port raises on every write.  Any exception marks the
\* modem disconnected.
write(mc, p, message, o, w) ==
  LET c == connected(mc, p, o)
      how == IF c.port = "open" THEN w ELSE "write_raises"
      raises == how \in {"write_raises", "drain_raises"}
  IN
  IF ~c.ret
  THEN [modem_connected |-> c.modem_connected, port |-> c.port,
        conn |-> c, tried |-> FALSE, sent |-> FALSE, failed |-> FALSE,
        wire |-> <<>>]
  ELSE [modem_connected |-> ~raises, port |-> c.port,
        conn |-> c, tried |-> TRUE, sent |-> (how \in {"ok", "drain_raises"}),
        failed |-> raises,
        wire |-> IF how \in {"ok", "drain_raises"}
                 THEN message \o <<CRLF>> ELSE <<>>]

\* The modem was initialized in full by this connected().
FullInit(c) == c.opened /\ c.inits = InitCommands

\* ------------------------------------------------------------------ stop
\* stop(): sets the flag, then closes the port.
stop_set ==
  /\ stop_pc = "idle"
  /\ stop_running' = TRUE
  /\ stop_pc' = "close"
  /\ UNCHANGED << queue, alarm, notification_handler, port, modem_connected,
                  pc, pending, cur, io, dirty,
                  last, wire, faulted >>

\* self.port.close(); with no port yet the call raises in the caller.
stop_close ==
  /\ stop_pc = "close"
  /\ port' = IF port = "none" THEN "none" ELSE "closed"
  /\ stop_pc' = IF port = "none" THEN "raised" ELSE "stopped"
  /\ UNCHANGED << queue, alarm, notification_handler, stop_running,
                  modem_connected, pc, pending, cur, io, dirty,
                  last, wire, faulted >>

\* ------------------------------------------------------------------- run
\* Line 103: the test of the outer loop.  The history of the iteration
\* that ended is dropped.
run_outer ==
  /\ pc = "outer"
  /\ pc' = IF stop_running THEN "done" ELSE "inner"
  /\ cur' = NoCur
  /\ io' = NoIo
  /\ UNCHANGED << queue, alarm, notification_handler, stop_running, port,
                  modem_connected, pending, stop_pc, dirty,
                  last, faulted >>

\* Line 106: the test of the inner loop, `not connected() and isSet()`.
\* While it holds the worker sleeps and tests again.
run_inner(outcomes) ==
  /\ pc = "inner"
  /\ \E o \in outcomes :
       LET c == connected(modem_connected, port, o) IN
       /\ modem_connected' = c.modem_connected
       /\ port' = c.port
       /\ pc' = IF ~c.ret /\ stop_running THEN "inner" ELSE "read"
       /\ io' = [NoIo EXCEPT !.op = "connected", !.pre = modem_connected,
                             !.ret = c.ret, !.opened = c.opened,
                             !.inits = c.inits, !.stale = dirty,
                             !.dirty = dirty]
       /\ dirty' = IF FullInit(c) THEN FALSE ELSE dirty
  /\ UNCHANGED << queue, alarm, notification_handler, stop_running, pending,
                  stop_pc, cur,
                  last, wire, faulted >>

\* Lines 111, 130: port.read(200) raises (no port, a closed port, an I/O
\* error); the handler marks the modem disconnected.
run_read_fail ==
  /\ pc = "read"
  /\ modem_connected' = FALSE
  /\ pc' = "outer"
  /\ cur' = [NoCur EXCEPT !.kind = "read_error", !.raised = TRUE]
  /\ io' = [NoIo EXCEPT !.op = "read", !.pre = modem_connected,
                        !.failed = TRUE, !.dirty = dirty]
  /\ UNCHANGED << queue, alarm, notification_handler, stop_running, port,
                  pending, stop_pc, dirty,
                  last, wire, faulted >>

\* run_loop(): takes one item, if any, and returns the calls to make for it.
run_loop_Newest(q, p) ==
  IF q = <<>> THEN [kind |-> "idle", index |-> 0, queue |-> q, calls |-> <<>>]
  ELSE
    LET i == Len(q)
        item == q[i]
    IN
    [kind |-> item.kind, index |-> i, queue |-> Remove(q, i),
     calls |->
       IF item.kind = "event" THEN handle_event(item.payload)
       ELSE IF item.kind = "notify"
       THEN send_message(
              ColonFormat(<<item.payload.source>>, item.payload.message), p)
       ELSE <<>>]

run_loop_Keep(q, p) ==
  IF q = <<>> THEN [kind |-> "idle", index |-> 0, queue |-> q, calls |-> <<>>]
  ELSE
    LET i == GetIndex(q)
        item == q[i]
    IN
    [kind |-> item.kind, index |-> i, queue |-> q,
     calls |->
       IF item.kind = "event" THEN handle_event(item.payload)
       ELSE IF item.kind = "notify"
       THEN send_message(
              ColonFormat(<<item.payload.source>>, item.payload.message), p)
       ELSE <<>>]

run_loop_Drain(q, p) ==
  IF q = <<>> THEN [kind |-> "idle", index |-> 0, queue |-> q, calls |-> <<>>]
  ELSE
    LET i == GetIndex(q)
        item == q[i]
    IN
    [kind |-> item.kind, index |-> i, queue |-> <<>>,
     calls |->
       IF item.kind = "event" THEN handle_event(item.payload)
       ELSE IF item.kind = "notify"
       THEN send_message(
              ColonFormat(<<item.payload.source>>, item.payload.message), p)
       ELSE <<>>]

run_loop(q, p) ==
  IF q = <<>> THEN [kind |-> "idle", index |-> 0, queue |-> q, calls |-> <<>>]
  ELSE
    LET i == GetIndex(q)
        item == q[i]
    IN
    [kind |-> item.kind, index |-> i, queue |-> Remove(q, i),
     calls |->
       IF item.kind = "event" THEN handle_event(item.payload)
       ELSE IF item.kind = "notify"
       THEN send_message(
              ColonFormat(<<item.payload.source>>, item.payload.message), p)
       ELSE <<>>]

\* The calls before the first write() of a list of calls: they are made
\* without waiting for the modem.
RECURSIVE Lead(_)
Lead(calls) ==
  IF calls = <<>> \/ Head(calls).op = "write" THEN <<>>
  ELSE <<Head(calls)>> \o Lead(Tail(calls))

\* A call on the notification handler raises when none is set.
Raises(calls, handlerSet) ==
  ~handlerSet /\ \E i \in 1..Len(calls) : calls[i].op = "notify"

\* Lines 127-128: the read returned nothing, run_loop() runs.
run_read_idle ==
  /\ pc = "read"
  /\ port = "open"
  /\ LET r == run_loop(queue, port) IN
     /\ queue' = r.queue
     /\ cur' = [NoCur EXCEPT !.kind = r.kind, !.index = r.index,
                             !.alarm = alarm,
                             !.handler = notification_handler,
                             !.calls = Lead(r.calls)]
     /\ pending' = SubSeq(r.calls, Len(Lead(r.calls)) + 1, Len(r.calls))
     /\ pc' = IF pending' = <<>> THEN "outer" ELSE "work"
  /\ io' = [NoIo EXCEPT !.op = "read", !.pre = modem_connected,
                        !.dirty = dirty]
  /\ UNCHANGED << alarm, notification_handler, stop_running, port,
                  modem_connected, stop_pc, dirty,
                  last, wire, faulted >>

\* Lines 127-128, 141-154: the read returned nothing, run_loop() takes an
\* item and the handler called for it raises before it writes anything (a
\* contact list that cannot be iterated, say); run_loop() logs the error
\* and returns True, so nothing reaches the handler of line 130.
run_loop_raises ==
  /\ pc = "read"
  /\ port = "open"
  /\ queue # <<>>
  /\ LET r == run_loop(queue, port) IN
     /\ queue' = r.queue
     /\ cur' = [NoCur EXCEPT !.kind = r.kind, !.index = r.index,
                             !.alarm = alarm,
                             !.handler = notification_handler,
                             !.raised = TRUE]
  /\ pending' = <<>>
  /\ pc' = "outer"
  /\ faulted' = TRUE
  /\ io' = [NoIo EXCEPT !.op = "read", !.pre = modem_connected,
                        !.dirty = dirty]
  /\ UNCHANGED << alarm, notification_handler, stop_running, port,
                  modem_connected, stop_pc, dirty, last, wire >>

\* Lines 113-115: the tokens of the data read.
Tokens(data) ==
  LET raw == Split(Strip(data), QUOTE) IN
  [i \in 1..Len(raw) |-> Strip(raw[i])]

\* The timestamps strptime accepts, after the offset is cut off.
ValidStamps == {<<"20/01/01,10:00:00">>}

\* Lines 117-126: what the data read leads to: the kind of the frame, the
\* calls to make, and whether reading the tokens raises.
Parse(data, alarmSet) ==
  LET tokens == Tokens(data) IN
  IF tokens[1] = <<"+CMT:">>
  THEN
    IF Len(tokens) < 7 \/ Split(tokens[6], "+")[1] \notin ValidStamps
    THEN [kind |-> "message", raised |-> TRUE, source |-> <<>>,
          body |-> <<>>, calls |-> <<>>]
    ELSE [kind |-> "message", raised |-> FALSE, source |-> tokens[2],
          body |-> tokens[7],
          calls |-> handle_message(tokens[2], tokens[7], alarmSet)]
  ELSE IF tokens[1] # <<>> /\ tokens[1][1] = "+CUSD:"
  THEN
    IF Len(tokens) < 2
    THEN [kind |-> "ussd", raised |-> TRUE, source |-> <<>>, body |-> <<>>,
          calls |-> <<>>]
    ELSE [kind |-> "ussd", raised |-> FALSE, source |-> <<>>,
          body |-> tokens[2],
          calls |-> <<Call("notify", <<name>>, tokens[2], "INFO")>>]
  ELSE [kind |-> "ignored", raised |-> FALSE, source |-> <<>>, body |-> <<>>,
        calls |-> <<>>]

\* Lines 112-126, 130-131: the read returned data.  An error raised while
\* the data is handled marks the modem disconnected.
run_read_data(data) ==
  /\ pc = "read"
  /\ port = "open"
  /\ data # <<>>
  /\ LET r == Parse(data, alarm)
         lead == Lead(r.calls)
         raised == r.raised \/ Raises(lead, notification_handler)
     IN
     /\ cur' = [NoCur EXCEPT !.kind = r.kind, !.source = r.source,
                             !.body = r.body, !.alarm = alarm,
                             !.handler = notification_handler,
                             !.calls = IF raised THEN <<>> ELSE lead,
                             !.raised = raised]
     /\ pending' = IF raised THEN <<>>
                   ELSE SubSeq(r.calls, Len(lead) + 1, Len(r.calls))
     /\ modem_connected' = IF raised THEN FALSE ELSE modem_connected
     /\ pc' = IF pending' = <<>> THEN "outer" ELSE "work"
  /\ io' = [NoIo EXCEPT !.op = "read", !.pre = modem_connected,
                        !.dirty = dirty]
  /\ UNCHANGED << queue, alarm, notification_handler, stop_running, port,
                  stop_pc, dirty,
                  last, wire, faulted >>

\* One write() of the calls pending, and the calls that follow it up to the
\* next write().
work_step(outcomes, results) ==
  /\ pc = "work"
  /\ pending # <<>>
  /\ \E o \in outcomes, w \in results :
       LET h == Head(pending)
           r == write(modem_connected, port, h.text, o, w)
           lead == Lead(Tail(pending))
           raised == Raises(lead, notification_handler)
           clean == IF FullInit(r.conn) THEN FALSE ELSE dirty
       IN
       /\ modem_connected' = IF raised THEN FALSE ELSE r.modem_connected
       /\ port' = r.port
       /\ io' = [NoIo EXCEPT !.op = "write", !.pre = modem_connected,
                             !.ret = r.conn.ret, !.opened = r.conn.opened,
                             !.inits = r.conn.inits, !.cmd = r.wire,
                             !.tried = r.tried, !.sent = r.sent,
                             !.failed = r.failed,
                             !.stale = dirty, !.dirty = clean]
       /\ dirty' = IF r.failed THEN TRUE ELSE clean
       /\ cur' = [cur EXCEPT !.calls = IF raised THEN @ ELSE @ \o lead,
                             !.raised = raised]
       /\ pending' = IF raised THEN <<>>
                     ELSE SubSeq(pending, Len(lead) + 2, Len(pending))
       /\ pc' = IF pending' = <<>> THEN "outer" ELSE "work"
  /\ UNCHANGED << queue, alarm, notification_handler, stop_running, stop_pc,
                  last, faulted >>

\* ----------------------------------------------------------------- inputs
\* The tokens an SMS body is built from, by position.
TypeTokens ==
  {<<"zone">>, <<"ZONE">>, <<"partition">>, <<"output">>, <<"door">>}
LabelTokens == {<<"frontdoor">>, <<>>}
ActionTokens ==
  {<<w>> : w \in OnWords \cup OffWords \cup PassWords}
    \cup {<<"On">>, <<"Enable">>, <<"Bypass">>, <<"ARM">>,
          <<"invalidaction">>, <<TAB, "arm">>, <<>>}
TokenChoices(i) ==
  IF i = 1 THEN TypeTokens
  ELSE IF i = 2 THEN LabelTokens
  ELSE IF i = 3 THEN ActionTokens
  ELSE {<<"now">>}

RECURSIVE TokenLists(_)
TokenLists(n) ==
  IF n = 0 THEN {<<>>}
  ELSE {Append(l, t) : l \in TokenLists(n - 1), t \in TokenChoices(n)}

\* Every body of one to MaxTokens tokens, single spaces between them.
Bodies ==
  UNION {{Join(l, SP) : l \in TokenLists(n)} : n \in 1..MaxTokens}

\* A few bodies: accepted by the grammar, a wrong action, too few tokens.
FewBodies ==
  { <<"zone", SP, "frontdoor", SP, "bypass">>,
    <<"partition", SP, "1", SP, "invalidaction">>,
    <<"output", SP, "1">> }

GoodStamp == <<"20/01/01,10:00:00", "+", "00">>

\* The unsolicited result code of an incoming SMS, as the modem sends it.
CmtFrame(source, stamp, body) ==
  <<"+CMT:", SP, QUOTE, source, QUOTE, ",", QUOTE, QUOTE, ",", QUOTE>>
    \o stamp \o <<QUOTE, CRLF>> \o body

\* Frames of other shapes: a USSD answer, a USSD code without its payload,
\* an SMS code cut short, an SMS with an unreadable timestamp, noise.
OtherFrames ==
  { <<"+CUSD:", SP, "0,", QUOTE, "Balance", QUOTE, ",15">>,
    <<"+CUSD:", SP, "2">>,
    <<"+CMT:", SP, QUOTE, "+111", QUOTE, ",">>,
    CmtFrame("+111", <<"garbage">>, <<"zone", SP, "frontdoor", SP, "bypass">>),
    <<"RING", CRLF>>,
    <<CRLF>> }

MessageFrames(sources, bodies) ==
  {CmtFrame(src, GoodStamp, b) : src \in sources, b \in bodies}

\* The frames read in the whole channel, and in the SMS command processor.
\* The senders are a contact and a number not on the contact list.
FewFrames == MessageFrames({"+111", "+999"}, FewBodies) \cup OtherFrames
AllFrames == MessageFrames({"+222", "+999"}, Bodies)

\* The events and notifications offered to the channel.
Raws == [major : {2, 37, 40, 41}, minor : {0, 5, 6}]
FewRaws == {[major |-> 37, minor |-> 0], [major |-> 40, minor |-> 6]}
NotifySources == {name, "mqtt"}
Levels == {40, 50, 60}
NotifyText == <<"fire">>

\* The payloads given to normalize_payload: every word of its lists, words
\* in upper and mixed case, words it does not know, words with whitespace
\* around or inside them, the empty text.
PayloadWords ==
  OnWords \cup OffWords \cup PassWords
    \cup {"ON", "On", "Enable", "TRUE", "Off", "False", "DISABLE", "Pulse",
          "Bypass", "ARM", "Disarm", "Arm_Stay", "ARM_SLEEP", "Clear_Bypass",
          "bogus", "BOGUS", "2", "onn", "arm_away"}
Payloads ==
  {<<w>> : w \in PayloadWords}
    \cup {<<TAB, w>> : w \in {"arm", "ARM", "on", "bogus"}}
    \cup {<<w, CRLF>> : w \in {"off", "Bypass"}}
    \cup {<<SP, w, SP>> : w \in {"1", "pulse"}}
    \cup {<<"arm", TAB, "stay">>, <<"on", "off">>, <<TAB>>, <<>>}
\* The payloads that can be the third token of a body split at the spaces.
TokenPayloads == {m \in Payloads : \A i \in 1..Len(m) : m[i] # SP}
PayloadFrames ==
  MessageFrames({"+111"},
    {Join(<<t, <<"1">>, m>>, SP) :
       t \in {<<"zone">>, <<"partition">>, <<"Output">>}, m \in TokenPayloads})

\* What an enqueue call did, for the history: the call, whether the items
\* that waited are all still there in their order, and the items added.
Observed(op, major, minor, source, level) ==
  last' = [op |-> op, major |-> major, minor |-> minor, source |-> source,
           level |-> level,
           kept |-> (Len(queue') >= Len(queue)
                     /\ SubSeq(queue', 1, Len(queue)) = queue),
           put |-> SubSeq(queue', Len(queue) + 1, Len(queue'))]

\* What a step of write() gave to the transport, for the history.
Written == wire' = IF io'.sent THEN Append(wire, io'.cmd) ELSE wire

\* --------------------------------------------------------- specifications
\* The whole channel: every operation, an unreliable transport, stop().
Next ==
  \/ set_alarm
  \/ set_notify
  \/ \E raw \in FewRaws : event(raw, MaxBacklog) /\ UNCHANGED last
  \/ change /\ UNCHANGED last
  \/ notify("mqtt", NotifyText, CRITICAL, MaxBacklog) /\ UNCHANGED last
  \/ stop_set
  \/ stop_close
  \/ run_outer /\ UNCHANGED wire
  \/ run_inner(ConnOutcomes)
  \/ run_read_fail
  \/ run_read_idle
  \/ \E d \in FewFrames : run_read_data(d)
  \/ work_step(ConnOutcomes, WriteOutcomes) /\ UNCHANGED wire

Spec == Init /\ [][Next]_vars

\* The SMS command processor: inbound SMS of every body.
NextMsg ==
  \/ set_alarm
  \/ set_notify
  \/ run_outer /\ UNCHANGED wire
  \/ run_inner(ConnOk)
  \/ \E d \in AllFrames : run_read_data(d)
  \/ work_step(ConnOk, WriteOutcomes) /\ UNCHANGED wire

SpecMsg == Init /\ [][NextMsg]_vars

\* The work queue: the enqueue entry points on every input, each call
\* recorded in the history, and the worker taking the items over a reliable
\* transport.
NextQueue ==
  \/ \E raw \in Raws :
       event(raw, MaxQueue) /\ Observed("event", raw.major, raw.minor, "", 0)
  \/ change /\ Observed("change", 0, 0, "", 0)
  \/ \E src \in NotifySources, l \in Levels :
       notify(src, NotifyText, l, MaxQueue) /\ Observed("notify", 0, 0, src, l)
  \/ run_outer /\ wire' = <<>>
  \/ run_inner(ConnOk)
  \/ run_read_idle
  \/ work_step(ConnOk, WriteOk) /\ Written

SpecQueue == Init /\ [][NextQueue]_vars

\* The payload normalizer: SMS from a contact asking each element type for
\* every payload, in every spelling.
NextNorm ==
  \/ set_alarm
  \/ set_notify
  \/ run_outer /\ UNCHANGED wire
  \/ run_inner(ConnOk)
  \/ \E d \in PayloadFrames : run_read_data(d)
  \/ work_step(ConnOk, WriteOk) /\ UNCHANGED wire

SpecNorm == Init /\ [][NextNorm]_vars

\* The iterations of the worker: inbound data and work items compete for
\* the worker, over a reliable transport.
NextIter ==
  \/ set_alarm
  \/ set_notify
  \/ \E raw \in FewRaws : event(raw, MaxQueue) /\ UNCHANGED last
  \/ notify("mqtt", NotifyText, CRITICAL, MaxQueue) /\ UNCHANGED last
  \/ run_outer /\ UNCHANGED wire
  \/ run_inner(ConnOk)
  \/ run_read_idle
  \/ \E d \in FewFrames : run_read_data(d)
  \/ work_step(ConnOk, WriteOk) /\ UNCHANGED wire

SpecIter == Init /\ [][NextIter]_vars

\* The work items one after the other: handlers that raise, writes that
\* fail, items put at any time, stop().
NextFault ==
  \/ \E raw \in FewRaws : event(raw, MaxQueue) /\ UNCHANGED last
  \/ notify("mqtt", NotifyText, CRITICAL, MaxQueue) /\ UNCHANGED last
  \/ stop_set
  \/ stop_close
  \/ run_outer /\ wire' = <<>>
  \/ run_inner(ConnOk)
  \/ run_read_fail
  \/ run_read_idle
  \/ run_loop_raises
  \/ work_step(ConnOk, WriteOutcomes) /\ Written

SpecFault == Init /\ [][NextFault]_vars

\* The worker thread: the steps of run().
Worker ==
  \/ run_outer /\ UNCHANGED wire
  \/ run_inner(ConnOutcomes)
  \/ run_read_fail
  \/ run_read_idle
  \/ work_step(ConnOutcomes, WriteOutcomes) /\ UNCHANGED wire

\* The worker and stop(): work is put in the queue, stop() is called at any
\* moment, the transport fails at will.  The worker is a thread of its own
\* whose sleeps end, so it always takes its next step; nothing is assumed
\* of the callers or of the transport.
NextLive ==
  \/ \E raw \in FewRaws : event(raw, MaxBacklog) /\ UNCHANGED last
  \/ notify("mqtt", NotifyText, CRITICAL, MaxBacklog) /\ UNCHANGED last
  \/ stop_set
  \/ stop_close
  \/ Worker

SpecLive == Init /\ [][NextLive]_vars /\ WF_vars(Worker)

\* ================================================================= claims
\* The calls made for the message or item of this iteration, by kind.
IsAlarmCall(c) ==
  c.op \in {"control_zone", "control_partition", "control_output"}
IsSmsCall(c) == c.op = "send_sms"
IsNotifyCall(c) == c.op = "notify"
AlarmCalls == SelectSeq(cur.calls, IsAlarmCall)
SmsCalls == SelectSeq(cur.calls, IsSmsCall)
NotifyCalls == SelectSeq(cur.calls, IsNotifyCall)

\* An inbound SMS was handled to the end, the worker is back at its loop.
MessageHandled == cur.kind = "message" /\ pc = "outer"
FromContact == Len(cur.source) = 1 /\ cur.source[1] \in Contacts

\* The command grammar as the specification states it: three tokens between
\* single spaces, a known element type, an action of that type's list.
GrammarActions(type) ==
  CASE type = <<"zone">> -> {"bypass", "clear_bypass"}
    [] type = <<"partition">> -> {"arm", "disarm", "arm_stay", "arm_sleep"}
    [] type = <<"output">> -> {"on", "off", "pulse"}
    [] OTHER -> {}
GrammarMethod(type) ==
  CASE type = <<"zone">> -> "control_zone"
    [] type = <<"partition">> -> "control_partition"
    [] type = <<"output">> -> "control_output"
    [] OTHER -> "none"
InGrammar(body) ==
  LET t == Split(body, SP) IN
  /\ Len(t) = 3
  /\ normalize_payload(t[3]) \in GrammarActions(Lower(t[1]))
\* The one Alarm call a body of the grammar asks for.
GrammarCall(body) ==
  LET t == Split(body, SP) IN
  Call(GrammarMethod(Lower(t[1])), <<"alarm">>, t[2], normalize_payload(t[3]))

\* C1 (as claimed): an SMS of the grammar from a contact, with an Alarm (and
\* a notification handler) registered, makes exactly one Alarm call, the
\* matching control method with (label, normalized action), and the reply
\* sent to the source is "ACCEPTED: <body>".
C1_AcceptedReply ==
  (MessageHandled /\ FromContact /\ cur.alarm /\ cur.handler
     /\ InGrammar(cur.body))
  => /\ AlarmCalls = <<GrammarCall(cur.body)>>
     /\ SmsCalls =
          <<Call("send_sms", cur.source,
                 ColonFormat(<<"ACCEPTED">>, cur.body), "")>>

\* C2 (as claimed): an SMS from a contact whose body is not of the grammar
\* makes no Alarm call and is answered "REJECTED: <body>".
C2_RejectedReplyAlways ==
  (MessageHandled /\ FromContact /\ ~InGrammar(cur.body))
  => /\ AlarmCalls = <<>>
     /\ SmsCalls =
          <<Call("send_sms", cur.source,
                 ColonFormat(<<"REJECTED">>, cur.body), "")>>

\* C2 (amended): with an Alarm and a notification handler registered, an SMS
\* from a contact whose body is not of the grammar makes no Alarm call and
\* is answered with exactly one SMS to the source, "REJECTED: <body>".
C2_RejectedReply ==
  (MessageHandled /\ FromContact /\ cur.alarm /\ cur.handler
     /\ ~InGrammar(cur.body))
  => /\ AlarmCalls = <<>>
     /\ SmsCalls =
          <<Call("send_sms", cur.source,
                 ColonFormat(<<"REJECTED">>, cur.body), "")>>

\* A body with a fourth token, and one with an action outside the list of
\* its type, were rejected.
C2_Witness ==
  /\ MessageHandled /\ FromContact /\ cur.alarm /\ cur.handler
  /\ cur.body = <<"partition", SP, "frontdoor", SP, "invalidaction">>
  /\ Len(SmsCalls) = 1

\* C3 (as claimed): an SMS from a number not on the contact list, with an
\* Alarm (and a notification handler) registered, sends no SMS, makes no
\* Alarm call and emits exactly one notification.
C3_OneNotification ==
  (MessageHandled /\ ~FromContact /\ cur.alarm /\ cur.handler)
  => /\ SmsCalls = <<>>
     /\ AlarmCalls = <<>>
     /\ pending = <<>>
     /\ Len(NotifyCalls) = 1

\* C3 (amended): such an SMS sends no SMS, makes no Alarm call and emits
\* exactly two informational notifications, "<source>: <body>" and then
\* "REJECTED: <source>: <body>".
C3_TwoNotifications ==
  (MessageHandled /\ ~FromContact /\ cur.alarm /\ cur.handler)
  => /\ SmsCalls = <<>>
     /\ AlarmCalls = <<>>
     /\ pending = <<>>
     /\ io.op = "read"
     /\ NotifyCalls =
          << Call("notify", <<name>>, ColonFormat(cur.source, cur.body),
                  "INFO"),
             Call("notify", <<name>>,
                  ColonFormat(<<"REJECTED">>,
                              ColonFormat(cur.source, cur.body)), "INFO") >>

C3_Witness ==
  /\ MessageHandled /\ ~FromContact /\ cur.alarm /\ cur.handler
  /\ InGrammar(cur.body)
  /\ Len(NotifyCalls) = 2

\* C4 (as claimed): an SMS from a contact, with an Alarm (and a notification
\* handler) registered, is answered by exactly one send_sms call, to the
\* source, with a text starting ACCEPTED or REJECTED, and emits exactly one
\* notification.
C4_OneReplyOneNotification ==
  (MessageHandled /\ FromContact /\ cur.alarm /\ cur.handler)
  => /\ Len(SmsCalls) = 1
     /\ SmsCalls[1].to = cur.source
     /\ SmsCalls[1].text[1] \in {"ACCEPTED", "REJECTED"}
     /\ Len(NotifyCalls) = 1

\* C4 (amended): such an SMS is answered by exactly one send_sms call, to
\* the source, with a text starting ACCEPTED or REJECTED, and emits exactly
\* two notifications, the echo of the message and the echo of the reply.
C4_OneReplyTwoNotifications ==
  (MessageHandled /\ FromContact /\ cur.alarm /\ cur.handler)
  => /\ Len(SmsCalls) = 1
     /\ SmsCalls[1].to = cur.source
     /\ SmsCalls[1].text[1] \in {"ACCEPTED", "REJECTED"}
     /\ SubSeq(SmsCalls[1].text, 4, Len(SmsCalls[1].text)) = cur.body
     /\ Len(NotifyCalls) = 2
     /\ NotifyCalls[1].text = ColonFormat(cur.source, cur.body)
     /\ NotifyCalls[2].text =
          ColonFormat(<<SmsCalls[1].text[1]>>,
                      ColonFormat(cur.source, cur.body))

C4_Witness ==
  /\ MessageHandled /\ FromContact /\ cur.alarm /\ cur.handler
  /\ Len(Split(cur.body, SP)) = 1
  /\ Len(SmsCalls) = 1 /\ Len(NotifyCalls) = 2
  /\ io.op = "write" /\ io.failed

\* C5: with no Alarm registered, an inbound SMS of any source and body
\* sends no SMS (no call pending, nothing written), calls no collaborator,
\* raises nothing, and the worker is back at the test of its loop.
C5_NoAlarmNoOp ==
  (cur.kind = "message" /\ ~cur.alarm)
  => /\ cur.calls = <<>>
     /\ pending = <<>>
     /\ ~cur.raised
     /\ io.op = "read"
     /\ modem_connected = io.pre
     /\ pc = "outer"

C5_Witness ==
  /\ cur.kind = "message" /\ ~cur.alarm /\ FromContact
  /\ InGrammar(cur.body)
  /\ pc = "outer"

\* C6: event(raw) adds exactly one item, the event, to the work queue if
\* and only if major = 37, or major = 2 and minor = 6, or major = 40 and
\* minor in 0..5; for every other (major, minor) the queue is unchanged.
C6_EventAdmission ==
  last.op = "event" =>
    /\ last.kept
    /\ IF \/ last.major = 37
          \/ last.major = 2 /\ last.minor = 6
          \/ last.major = 40 /\ last.minor \in 0..5
       THEN last.put =
              <<[priority |-> 2, kind |-> "event",
                 payload |-> [major |-> last.major, minor |-> last.minor]]>>
       ELSE last.put = <<>>

\* An event of major 40 and minor 5 was put, and one of minor 6 dropped.
C6_Witness ==
  /\ last.op = "event" /\ last.major = 40 /\ last.minor = 6
  /\ last.put = <<>>
  /\ \E i \in 1..Len(queue) :
       /\ queue[i].kind = "event"
       /\ queue[i].payload = [major |-> 40, minor |-> 5]

\* C7: notify(source, message, level) adds exactly one item, the
\* notification, to the work queue if and only if source is not 'gsm' and
\* level >= CRITICAL; otherwise the queue is unchanged, so no dropped
\* notification is in the queue or taken by the worker.
C7_NotifyAdmission ==
  /\ last.op = "notify" =>
       /\ last.kept
       /\ IF last.source # "gsm" /\ last.level >= 50
          THEN last.put =
                 <<[priority |-> 2, kind |-> "notify",
                    payload |-> [source |-> last.source,
                                 message |-> NotifyText,
                                 level |-> last.level]]>>
          ELSE last.put = <<>>
  /\ \A i \in 1..Len(queue) :
       queue[i].kind = "notify" =>
         /\ queue[i].payload.source # "gsm"
         /\ queue[i].payload.level >= 50
  /\ \A i \in 1..Len(cur.calls) :
       cur.calls[i].op = "send_sms" => cur.calls[i].text[1] # "gsm"

\* A notification of level CRITICAL from another channel was put, and the
\* worker took it.
C7_Witness ==
  /\ last.op = "notify" /\ last.source = "mqtt" /\ last.level = 50
  /\ Len(last.put) = 1
  /\ cur.kind = "notify"

C9_ReinitBeforeTraffic ==
  io.op = "write" =>
    /\ io.failed => (~modem_connected /\ dirty)
    /\ io.tried =>
         /\ ~io.dirty
         /\ io.ret
         /\ io.stale => (io.opened /\ io.inits = InitCommands)
         /\ io.opened => io.inits =
              << <<"AT">>, <<"ATE0">>, <<"AT+CMGF=1">>,
                 <<"AT+CNMI=1,2,0,0,0">>,
                 <<"AT+CUSD=1,", QUOTE, "*111#", QUOTE>> >>
    /\ (io.sent \/ io.failed) => io.tried

\* A command was written after an earlier write had failed: in between the
\* port was opened and initialized again.
C9_Witness ==
  /\ io.op = "write" /\ io.stale /\ io.sent /\ ~io.failed
  /\ io.opened /\ Len(io.inits) = 5

\* C10: connected() called while the modem is connected returns true,
\* opens nothing, writes nothing and changes no field; a second call
\* right after it does the same.
C10_ConnectedIdempotent ==
  [][/\ modem_connected =>
          \A o1 \in ConnOutcomes, o2 \in ConnOutcomes :
            LET a == connected(modem_connected, port, o1)
                b == connected(a.modem_connected, a.port, o2)
            IN /\ a.ret /\ ~a.opened /\ a.inits = <<>>
               /\ a.modem_connected /\ a.port = port
               /\ b = a
     /\ (pc = "inner" /\ pc' # pc /\ modem_connected) =>
          /\ pc' = "read"
          /\ io'.op = "connected" /\ io'.ret /\ ~io'.opened
          /\ io'.inits = <<>>
          /\ UNCHANGED << queue, alarm, notification_handler, stop_running,
                          port, modem_connected, pending, stop_pc, cur,
                          dirty, last, wire, faulted >>
     /\ (pc = "work" /\ io'.op = "write" /\ io' # io /\ modem_connected) =>
          /\ io'.ret /\ ~io'.opened /\ io'.inits = <<>>]_vars

C10_Witness ==
  pc = "read" /\ io.op = "connected" /\ io.pre /\ io.ret /\ port = "closed"


\* C11: connected() called while the modem is disconnected returns false
\* and leaves it disconnected when the port cannot be opened or one of the
\* five initialization writes fails (raises or writes nothing); it marks
\* the modem connected and returns true only when the port was opened and
\* all five commands were written.  Stated of every call the worker makes
\* (from run() and from write()) and on every outcome in every state.
C11_ConnectFailure ==
  /\ (io.op \in {"connected", "write"} /\ ~io.pre) =>
       /\ io.ret <=> (io.opened /\ io.inits = InitCommands)
       /\ ~io.ret => ~modem_connected
       /\ ~io.ret => ~io.tried
       /\ Len(io.inits) <= 5
       /\ io.inits # <<>> => io.opened
       /\ (io.op = "connected") => (modem_connected = io.ret)
  /\ \A o \in ConnOutcomes :
       LET c == connected(FALSE, port, o) IN
       /\ c.ret = (o.open /\ o.bad = 0)
       /\ c.modem_connected = c.ret
       /\ (~o.open) => (c.port = port /\ ~c.opened)

\* The port was opened and four commands written; the fifth write failed,
\* the call returned false and the modem is still disconnected.
C11_Witness ==
  /\ io.op = "connected" /\ ~io.pre /\ ~io.ret
  /\ io.opened /\ Len(io.inits) = 4
  /\ ~modem_connected


\* C12 (as claimed): once stop() has set the stop flag the worker loop
\* exits, run() returns, whatever the state of the modem and wherever the
\* worker was when the flag was set.
C12_StopExits == stop_running ~> (pc = "done")


\* The table of the payload normalizer as the specification states it, for
\* one word.
NormalWord(w) ==
  CASE w \in {"true", "on", "1", "enable"} -> "on"
    [] w \in {"false", "off", "0", "disable"} -> "off"
    [] w \in {"pulse", "arm", "disarm", "arm_stay", "arm_sleep", "bypass",
              "clear_bypass"} -> w
    [] OTHER -> None
\* A word of the table in any case goes to its entry, every other input to
\* None.
NormalExact(m) == IF Len(m) = 1 THEN NormalWord(Lower(m)[1]) ELSE None
\* The same with the whitespace around the input ignored.
NormalStripped(m) == NormalExact(Strip(m))
\* The Alarm call an SMS "<type> <label> <payload>" from a contact leads to
\* when its payload is normalized to `action`.
NormalCalls(body, action) ==
  LET t == Split(body, SP)
      type == Lower(t[1])
  IN IF action \in GrammarActions(type)
     THEN <<Call(GrammarMethod(type), <<"alarm">>, t[2], action)>>
     ELSE <<>>
\* The payload of the SMS handled.
PayloadGiven == Split(cur.body, SP)[3]
PayloadHandled ==
  /\ MessageHandled /\ FromContact /\ cur.alarm /\ cur.handler
  /\ Len(Split(cur.body, SP)) = 3

\* C13 (as claimed): normalize_payload maps the members of {true, on, 1,
\* enable}, in any case, to "on", those of {false, off, 0, disable} to
\* "off", those of {pulse, arm, disarm, arm_stay, arm_sleep, bypass,
\* clear_bypass} to themselves in lower case, and every other input to
\* None; a recognized output is mapped to itself.
C13_NormalizeExact ==
  /\ \A m \in Payloads : normalize_payload(m) = NormalExact(m)
  /\ \A m \in Payloads :
       normalize_payload(m) # None =>
         normalize_payload(<<normalize_payload(m)>>) = normalize_payload(m)
  /\ PayloadHandled => AlarmCalls = NormalCalls(cur.body, NormalExact(PayloadGiven))

\* C13 (amended): the same of the input with its leading and trailing
\* whitespace removed: a listed word with whitespace around it is
\* recognized too, and only an input that is no listed word after that goes
\* to None.  The Alarm call the worker makes for an SMS carries the
\* normalized payload.
C13_NormalizeStripped ==
  /\ \A m \in Payloads : normalize_payload(m) = NormalStripped(m)
  /\ \A m \in Payloads :
       normalize_payload(m) # None =>
         /\ normalize_payload(m)
              \in {"on", "off", "pulse", "arm", "disarm", "arm_stay",
                   "arm_sleep", "bypass", "clear_bypass"}
         /\ normalize_payload(<<normalize_payload(m)>>) = normalize_payload(m)
  /\ PayloadHandled => AlarmCalls = NormalCalls(cur.body, NormalStripped(PayloadGiven))

\* The payload "<TAB>ARM" armed a partition.
C13_Witness ==
  /\ PayloadHandled
  /\ Split(cur.body, SP)[3] = <<TAB, "ARM">>
  /\ AlarmCalls = <<Call("control_partition", <<"alarm">>, <<"1">>, "arm")>>


\* The data read had the code of an SMS or of a USSD answer and too few
\* tokens, or an unreadable timestamp: reading its tokens raised.
Malformed ==
  /\ cur.kind \in {"message", "ussd"}
  /\ cur.raised /\ cur.source = <<>> /\ cur.body = <<>>

\* C14 (as claimed): inbound data with a malformed framing ('+CMT:' with
\* fewer than seven tokens, '+CUSD:' with no payload token) is ignored and
\* the state of the modem is unchanged: a connected modem stays connected.
C14_MalformedIgnored ==
  (Malformed /\ io.op = "read" /\ io.pre) => modem_connected

\* C15 (as claimed): the worker performs no read on the transport in an
\* iteration in which connected() returned false: every read that returned
\* was made with the modem connected.
C15_NoReadAfterFailedConnect ==
  (io.op = "read" /\ ~io.failed) => io.pre


\* C16: in every iteration the worker takes an item from the queue only
\* at the read that returned no data, and at most one: an item leaves the
\* queue only in the step from the read, one item at a time, when nothing
\* was read or taken yet in this iteration; the step that reads data
\* leaves the queue as it is, and so does the rest of its iteration.
C16_OneItemWhenIdle ==
  [][/\ Len(queue') < Len(queue) =>
          /\ pc = "read" /\ pc' # "read"
          /\ cur.kind = "none"
          /\ cur'.kind \in {"event", "notify", "change"}
          /\ io'.op = "read"
          /\ Len(queue') = Len(queue) - 1
     /\ (pc = "read" /\ cur'.kind \in {"message", "ussd", "ignored"}) =>
          queue' = queue
     /\ cur.kind \in {"message", "ussd", "ignored", "event", "notify",
                      "change", "idle"} =>
          /\ Len(queue') >= Len(queue)
          /\ SubSeq(queue', 1, Len(queue)) = queue
     /\ (pc = "read" /\ pc' # "read") => cur.kind = "none"]_vars

\* An iteration took one item and ended with the other item still waiting;
\* the modem had been written to for it.
C16_Witness ==
  /\ pc = "outer" /\ cur.kind \in {"event", "notify"}
  /\ Len(queue) = 1 /\ cur.index = 1
  /\ io.op = "write"


\* The worker has taken an item in this iteration.
ItemTaken == cur.kind \in {"event", "notify", "change"}

\* C17: every work item is processed at most once.  The item the worker
\* takes leaves the queue in the step that takes it, also when its handler
\* raises; the worker never puts an item in the queue; the writes planned
\* for an item are each tried once; an error in the handling leaves the
\* port and the modem state as they were and the worker at the test of its
\* loop, which it leaves only when stop() was called.
C17_AtMostOnce ==
  /\ [](pc = "done" => stop_running)
  /\ []((ItemTaken /\ cur.raised) =>
          (pending = <<>> /\ wire = <<>> /\ pc \in {"outer", "done"}))
  /\ [][/\ (pc = "read" /\ pc' # pc /\ cur'.kind \in {"event", "notify"}) =>
             /\ cur'.index \in 1..Len(queue)
             /\ queue[cur'.index].kind = cur'.kind
             /\ queue' = Remove(queue, cur'.index)
        /\ (pc = "read" /\ cur'.raised /\ cur'.kind \in {"event", "notify"}) =>
             /\ pc' = "outer"
             /\ UNCHANGED << modem_connected, port, stop_running >>
        /\ Len(queue') > Len(queue) =>
             /\ UNCHANGED << pc, cur, pending, io, wire >>
             /\ queue' = Append(queue, queue'[Len(queue')])
        /\ (pc = "work" /\ io' # io) =>
             /\ pending # <<>>
             /\ Len(pending') < Len(pending)
             /\ pending' = SubSeq(pending, Len(pending) - Len(pending') + 1,
                                  Len(pending))
             /\ Len(wire') <= Len(wire) + 1
        /\ pc # "read" => (pending' = pending \/ Len(pending') < Len(pending))
       ]_vars

\* After the handling of an item had raised, the worker took a later item
\* and dialled for it, an item put after it still waiting.
C17_Witness ==
  /\ faulted /\ ItemTaken /\ ~cur.raised
  /\ pc = "outer" /\ ~stop_running
  /\ wire # <<>> /\ wire[1][1] = "ATD"
  /\ queue # <<>>


\* The item of this iteration was handled to the end.
ItemHandled(kind) == pc = "outer" /\ cur.kind = kind /\ ~cur.raised

\* C18: with the modem connected and every write succeeding, a notify item
\* sends one SMS "<source>: <message>" to each contact, in the order of the
\* contact list (compose command, text, terminator, nothing else); an event
\* item writes one ATD<contact> to each contact and sends no SMS; a change
\* item writes nothing.
C18_FanOut ==
  /\ ItemHandled("notify") =>
       /\ Len(wire) = 3 * Len(GSM_CONTACTS)
       /\ \A i \in 1..Len(GSM_CONTACTS) :
            /\ wire[3 * i - 2] =
                 <<"AT+CMGS=", QUOTE, GSM_CONTACTS[i], QUOTE, CRLF>>
            /\ wire[3 * i - 1] = <<"mqtt", ":", SP, "fire", CRLF>>
            /\ wire[3 * i] = <<SUB, CRLF, CRLF>>
       /\ SmsCalls =
            [i \in 1..Len(GSM_CONTACTS) |->
               Call("send_sms", <<GSM_CONTACTS[i]>>,
                    <<"mqtt", ":", SP, "fire">>, "")]
  /\ ItemHandled("event") =>
       /\ wire = [i \in 1..Len(GSM_CONTACTS) |->
                    <<"ATD", GSM_CONTACTS[i], CRLF>>]
       /\ SmsCalls = <<>>
  /\ cur.kind \in {"idle", "change"} => (wire = <<>> /\ pending = <<>>)
  /\ LET r == run_loop(<<SortableTuple(2, "change", <<>>)>>, port) IN
     r.kind = "change" /\ r.calls = <<>> /\ r.queue = <<>>

\* A notification was sent to both contacts.
C18_Witness ==
  /\ ItemHandled("notify") /\ Len(wire) = 6
  /\ wire[5] = <<"mqtt", ":", SP, "fire", CRLF>>


\* C19 (as claimed): after stop() has set the flag and closed the port the
\* worker never opens the port again: when the loop has exited the port is
\* closed, whatever the interleaving of stop() with the worker.
C19_ClosedAfterStop ==
  (pc = "done" /\ stop_pc = "stopped") => port = "closed"


\* C20 (as claimed): the text and the terminator of an SMS reach the modem
\* only after the compose command of the same send_sms call was written
\* successfully on the same connection: the write() that sends the text
\* follows a compose write that was sent and did not fail, the one that
\* sends the terminator follows such a write of the text, and neither
\* opens the port anew.
C20_BodyOnlyAfterCompose ==
  [][(/\ pc = "work" /\ pending # <<>> /\ pending' # pending
      /\ Head(pending).arg \in {"body", "end"}
      /\ io'.sent) =>
       /\ io.op = "write" /\ io.sent /\ ~io.failed
       /\ Head(pending).arg = "body" => io.cmd[1] = "AT+CMGS="
       /\ Head(pending).arg = "end" => ~io.opened
       /\ ~io'.opened]_vars

====
